---- MODULE Spec2Model ----
(***************************************************************************)
(* Model of the matching / scoring slice of repofit:                       *)
(*   src/src/matcher/recommender.py   (Recommender)                        *)
(*   src/src/storage/supabase_client.py (SupabaseStorage)                  *)
(*                                                                         *)
(* Numbers.  Python floats in [0,1] are kept as exact fixed-point          *)
(* numerators over Scale; the composite score is kept as a numerator over  *)
(* WEIGHT_DEN * Scale.  Rounding of IEEE doubles is not modelled.          *)
(* Optional values (None | v) are kept as <<>> | <<v>>.                    *)
(***************************************************************************)
EXTENDS Integers, Sequences, FiniteSets, TLC

\* ------------------------------------------------------------------------
\* Bounds and program constants
\* ------------------------------------------------------------------------
MaxLimit == 2
\* longest backfill list whose passes fail independently of each other
MaxIndependent == 3
\* rows of gt_repositories in the backfill scenario
NumBackfillRepos == 52
\* rows of gt_my_projects in the backfill scenario
NumBackfillProjects == 3
\* the scheduler's clock: a day of SlotsPerDay schedulable (hour, minute)
\* slots, each TicksPerSlot clock ticks long; the clock stops at MaxNow
SlotsPerDay == 3
TicksPerSlot == 2
MaxNow == 20
\* longest batch handed to project auto-registration
MaxInputs == 3
\* embed_new_repos(limit=50)
DEFAULT_EMBED_LIMIT == 50
\* match_project_to_repos(limit=20)
DEFAULT_LIMIT == 20

Scale == 600

W_SIM == 5
W_STACK == 3
W_QUALITY == 2
WEIGHT_DEN == 10

DEFAULT_QUALITY == 50
QUALITY_DEN == 100
SEMANTIC_THRESHOLD == 420
TRENDING_THRESHOLD == 100

ScoreOne == WEIGHT_DEN * Scale

None == <<>>
Some(v) == <<v>>

Min(a, b) == IF a <= b THEN a ELSE b
Max(a, b) == IF a >= b THEN a ELSE b
ToSet(s) == {s[i] : i \in DOMAIN s}

\* dict.get(key, default)
Get(d, k, default) == IF k \in DOMAIN d THEN d[k] ELSE default

\* Python truthiness of an Optional[int] / Optional[str]
TruthyInt(o) == o # None /\ o[1] # 0
TruthyStr(o) == o # None /\ o[1] # ""

\* ------------------------------------------------------------------------
\* Inputs: identifiers, similarity values, hash seeds
\* ------------------------------------------------------------------------
ProjectIds == {"p0", "p1", "p2"}
LimitValues == 1..MaxLimit
MinStarsValues == {100, 1000, 10000}
\* cosine similarities returned for a project, as numerators over Scale:
\* -0.5 and 0.82 for p1, 0.70 and 0.74 for p2
SimValues(pid) == IF pid = "p1" THEN {-300, 492} ELSE {420, 444}
\* PYTHONHASHSEED classes of one interpreter process
HashSeeds == {0, 1}

\* str.lower() on the vocabulary of the tables
Lower(t) ==
  CASE t = "Python" -> "python"
    [] t = "FastAPI" -> "fastapi"
    [] t = "Go" -> "go"
    [] OTHER -> t

TermRank(t) ==
  CASE t = "ai" -> 1
    [] t = "fastapi" -> 2
    [] t = "go" -> 3
    [] t = "python" -> 4
    [] t = "web" -> 5
    [] OTHER -> 6

\* ------------------------------------------------------------------------
\* Tables as first loaded
\* ------------------------------------------------------------------------
InitProjects ==
  [p \in {"p1", "p2"} |->
     IF p = "p1"
     THEN [id |-> "p1", name |-> "alpha", tech_stack |-> <<"Python", "fastapi">>,
           tags |-> <<"ai">>, is_active |-> TRUE, created_at |-> 1]
     ELSE [id |-> "p2", name |-> "beta", tech_stack |-> <<>>,
           tags |-> <<>>, is_active |-> TRUE, created_at |-> 2]]

InitRepositories ==
  [r \in {"r1", "r2"} |->
     IF r = "r1"
     THEN [id |-> "r1", full_name |-> "acme/api", language |-> Some("python"),
           topics |-> <<"FastAPI", "web">>, stars |-> 5000, created_at |-> 1]
     ELSE [id |-> "r2", full_name |-> "acme/bare", language |-> None,
           topics |-> <<>>, stars |-> 300, created_at |-> 2]]

\* gt_analyses rows, most recently analysed first
InitAnalyses ==
  << [repository_id |-> "r1", overall_score |-> Some(40)],
     [repository_id |-> "r1", overall_score |-> Some(80)],
     [repository_id |-> "r2", overall_score |-> Some(0)] >>

\* gt_v_latest_trending rows
InitTrending ==
  { [id |-> "r1", stars_today |-> 150], [id |-> "r2", stars_today |-> 100] }

VARIABLES
  gt_my_projects,      \* table gt_my_projects: id -> row
  gt_repositories,     \* table gt_repositories: id -> row
  gt_analyses,         \* table gt_analyses ordered by analyzed_at desc
  gt_trending,         \* view gt_v_latest_trending
  gt_recommendations,  \* table gt_recommendations: set of rows
  hashseed,            \* str hash seed of the running interpreter
  project_id,          \* match_project_to_repos: argument of the last call
  limit,               \*   "
  similar_repos,       \*   local: rows returned by find_similar_repos
  repo_metadata,       \*   local: map returned by get_repo_metadata_by_ids
  scored,              \*   locals of each loop iteration
  recommendations,     \*   local list after the sort
  returned,            \*   return value
  overwrote,           \*   some upsert of the call replaced a different row
  metadata_calls,      \*   get_repo_metadata_by_ids calls made, by argument
  raised,              \* exception that escaped the last call, "" if none
  repo_embedding,      \* ids of gt_repositories rows whose embedding is not null
  project_embedding,   \* ids of gt_my_projects rows whose embedding is not null
  embed_call,          \* embed_new_repos / embed_new_projects: the last call
  pc,                  \* run_full_pipeline: position in the function
  args,                \*   arguments min_stars, notify, score_threshold
  repos_embedded,      \*   local
  projects_embedded,   \*   local
  projects,            \*   local: rows returned by get_projects
  match_log,           \*   one entry per match_project_to_repos call made
  all_recommendations, \*   local
  total_recommendations, \* local
  notified_count,      \*   local
  notifier_calls,      \* SlackNotifier.notify_recommendations calls received
  slack_messages,      \* SlackNotifier.send_message calls: kind and outcome
  result,              \* run_full_pipeline: returned summary
  dismiss_calls,       \* (project, repository) pairs dismiss_recommendation hit
  runs,                \* concurrent match_project_to_repos calls in progress
  sched,               \* cli schedule: loop state
  reg                  \* sync_to_storage / sync_github_repos: loop state

vars == << gt_my_projects, gt_repositories, gt_analyses, gt_trending,
           gt_recommendations, hashseed, project_id, limit, similar_repos,
           repo_metadata, scored, recommendations, returned, overwrote,
           metadata_calls, raised, repo_embedding, project_embedding,
           embed_call, pc, args, repos_embedded, projects_embedded, projects,
           match_log, all_recommendations, total_recommendations,
           notified_count, notifier_calls, slack_messages, result,
           dismiss_calls, runs, sched, reg >>

tables == << gt_my_projects, gt_repositories, gt_analyses, gt_trending >>

match_locals == << project_id, limit, similar_repos, repo_metadata, scored,
                   recommendations, returned, overwrote, metadata_calls >>

\* state of the parts of the program an action does not belong to
elsewhere == << dismiss_calls, runs, sched, reg >>

embeddings == << repo_embedding, project_embedding, embed_call >>

pipeline == << pc, args, repos_embedded, projects_embedded, projects, match_log,
               all_recommendations, total_recommendations, notified_count,
               notifier_calls, slack_messages, result >>

\* ------------------------------------------------------------------------
\* Recommender._calculate_stack_overlap
\* ------------------------------------------------------------------------
\* list(a_set_of_str): iteration order is fixed by the process's hash seed
RECURSIVE SetToList(_, _)
SetToList(S, seed) ==
  IF S = {} THEN <<>>
  ELSE LET x == CHOOSE y \in S :
                  \A z \in S : IF seed = 0 THEN TermRank(y) <= TermRank(z)
                                           ELSE TermRank(y) >= TermRank(z)
       IN <<x>> \o SetToList(S \ {x}, seed)

CalculateStackOverlapRaw(project_stack, project_tags, repo_language, repo_topics, seed) ==
  LET overlap == {Lower(t) : t \in ToSet(project_stack \o project_tags)}
                 \cap ({Lower(t) : t \in ToSet(repo_topics)}
                       \cup (IF TruthyStr(repo_language) THEN {Lower(repo_language[1])} ELSE {}))
  IN [score |-> Cardinality(overlap) * Scale, overlaps |-> SetToList(overlap, seed)]

CalculateStackOverlapNoFold(project_stack, project_tags, repo_language, repo_topics, seed) ==
  LET project_terms == ToSet(project_stack \o project_tags)
      repo_terms == ToSet(repo_topics)
                    \cup (IF TruthyStr(repo_language) THEN {repo_language[1]} ELSE {})
      overlap == project_terms \cap repo_terms
  IN IF project_terms = {} \/ repo_terms = {}
     THEN [score |-> 0, overlaps |-> <<>>]
     ELSE [score |-> Min(Scale, (Cardinality(overlap) * Scale) \div Max(Cardinality(project_terms), 1)),
           overlaps |-> SetToList(overlap, seed)]

CalculateStackOverlap(project_stack, project_tags, repo_language, repo_topics, seed) ==
  LET project_terms == {Lower(t) : t \in ToSet(project_stack \o project_tags)}
      repo_terms == {Lower(t) : t \in ToSet(repo_topics)}
                    \cup (IF TruthyStr(repo_language) THEN {Lower(repo_language[1])} ELSE {})
      overlap == project_terms \cap repo_terms
      overlap_score == (Cardinality(overlap) * Scale) \div Max(Cardinality(project_terms), 1)
  IN IF project_terms = {} \/ repo_terms = {}
     THEN [score |-> 0, overlaps |-> <<>>]
     ELSE [score |-> Min(Scale, overlap_score), overlaps |-> SetToList(overlap, seed)]

\* ------------------------------------------------------------------------
\* SupabaseStorage
\* ------------------------------------------------------------------------
\* find_similar_repos: the rows the RPC gt_match_repos_to_project may return:
\* at most p_limit distinct repositories with at least p_min_stars stars, each
\* with a similarity
FindSimilarRepos(p_project_id, p_limit, p_min_stars) ==
  LET eligible == {r \in DOMAIN gt_repositories : gt_repositories[r].stars >= p_min_stars}
      n == Min(p_limit, Cardinality(eligible))
      picks == UNION { { s \in [1..k -> [repository_id : eligible, similarity : SimValues(p_project_id)]] :
                           \A i, j \in 1..k : i # j => s[i].repository_id # s[j].repository_id }
                       : k \in 0..n }
  IN { [i \in DOMAIN s |->
          [repository_id |-> s[i].repository_id,
           full_name |-> gt_repositories[s[i].repository_id].full_name,
           similarity |-> s[i].similarity]] : s \in picks }

\* the first gt_analyses row of a repository in analyzed_at-desc order
AnalysisMap(repo_id) ==
  LET idx == {i \in DOMAIN gt_analyses : gt_analyses[i].repository_id = repo_id}
  IN IF idx = {} THEN None
     ELSE gt_analyses[CHOOSE i \in idx : \A j \in idx : i <= j].overall_score

TrendingMap(repo_id) ==
  LET rows == {t \in gt_trending : t.id = repo_id}
  IN IF rows = {} THEN 0 ELSE (CHOOSE t \in rows : TRUE).stars_today

GetRepoMetadataByIds(repo_ids) ==
  IF repo_ids = <<>> THEN <<>>
  ELSE [r \in ToSet(repo_ids) \cap DOMAIN gt_repositories |->
          [id |-> r,
           full_name |-> gt_repositories[r].full_name,
           language |-> gt_repositories[r].language,
           topics |-> gt_repositories[r].topics,
           stars |-> gt_repositories[r].stars,
           overall_score |-> AnalysisMap(r),
           stars_today |-> TrendingMap(r)]]

SameKey(a, b) == a.project_id = b.project_id /\ a.repository_id = b.repository_id

SaveRecommendationByRepo(table, row) ==
  {x \in table : x.repository_id # row.repository_id} \cup {row}

SaveRecommendationKeepStatus(table, row) ==
  LET old == {x \in table : SameKey(x, row)}
  IN IF old = {} THEN table \cup {row}
     ELSE {x \in table : ~SameKey(x, row)}
          \cup {[row EXCEPT !.status = (CHOOSE x \in old : TRUE).status]}

InsertRecommendation(table, row) == table \cup {row}

\* save_recommendation: upsert on (project_id, repository_id)
SaveRecommendation(table, row) ==
  {x \in table : ~SameKey(x, row)} \cup {row}

RECURSIVE SaveAll(_, _)
SaveAll(table, rows) ==
  IF rows = <<>> THEN table
  ELSE SaveAll(SaveRecommendation(table, Head(rows)), Tail(rows))

\* ------------------------------------------------------------------------
\* Recommender.embed_new_repos / embed_new_projects
\* ------------------------------------------------------------------------
\* ids of S in the order the rows were inserted into the table
RowsInTableOrder(table, S) ==
  [i \in 1..Cardinality(S) |->
     CHOOSE y \in S :
       Cardinality({z \in S : table[z].created_at < table[y].created_at}) = i - 1]

\* get_repos_without_embedding(limit): .is_("embedding", "null").limit(limit)
\* with no ordering, so which `limit` of the rows come back is up to the store;
\* the results considered are the runs of `limit` consecutive rows
GetReposWithoutEmbedding(lim) ==
  LET rows == RowsInTableOrder(gt_repositories, DOMAIN gt_repositories \ repo_embedding)
  IN IF Len(rows) <= lim THEN {rows}
     ELSE {SubSeq(rows, o + 1, o + lim) : o \in 0..(Len(rows) - lim)}

\* get_projects_without_embedding: every row with a null embedding, active or not
GetProjectsWithoutEmbedding ==
  RowsInTableOrder(gt_my_projects, DOMAIN gt_my_projects \ project_embedding)

\* what one pass of the loop body can do: store the vector, raise in
\* embed_text, or raise in update_*_embedding
EmbedOutcomes == {"ok", "embed_error", "update_error"}

\* outcomes of the n passes of one call: independent for short lists; for
\* longer ones the provider is either up or down for the whole call
OutcomeChoices(n) ==
  IF n <= MaxIndependent THEN [1..n -> EmbedOutcomes]
  ELSE {[i \in 1..n |-> o] : o \in {"ok", "embed_error"}}

ProcessItemsAbort(selected, outcome) ==
  LET failed == {i \in DOMAIN selected : outcome[i] # "ok"}
      last == IF failed = {} THEN Len(selected)
              ELSE CHOOSE i \in failed : \A j \in failed : i <= j
  IN [i \in 1..last |-> [id |-> selected[i], outcome |-> outcome[i]]]

\* for item in items: try: embed, update, count += 1; except Exception: continue
ProcessItems(selected, outcome) ==
  [i \in DOMAIN selected |-> [id |-> selected[i], outcome |-> outcome[i]]]

Stored(log) == {log[i].id : i \in {j \in DOMAIN log : log[j].outcome = "ok"}}

CountOf(log) == Cardinality({j \in DOMAIN log : log[j].outcome = "ok"})

NoEmbedCall == [kind |-> "", selected |-> <<>>, log |-> <<>>, count |-> 0]

EmbedNewRepos(selected, outcome) ==
  LET log == ProcessItems(selected, outcome)
  IN /\ repo_embedding' = repo_embedding \cup Stored(log)
     /\ embed_call' = [kind |-> "repos", selected |-> selected, log |-> log,
                       count |-> CountOf(log)]
     /\ UNCHANGED project_embedding

EmbedNewProjects(selected, outcome) ==
  LET log == ProcessItems(selected, outcome)
  IN /\ project_embedding' = project_embedding \cup Stored(log)
     /\ embed_call' = [kind |-> "projects", selected |-> selected, log |-> log,
                       count |-> CountOf(log)]
     /\ UNCHANGED repo_embedding

\* ------------------------------------------------------------------------
\* Recommender.run_full_pipeline: state before the first call
\* ------------------------------------------------------------------------
NoArgs == [min_stars |-> 0, notify |-> FALSE, score_threshold |-> 0]

PipelineIdle ==
  /\ pc = "idle"
  /\ args = NoArgs
  /\ repos_embedded = 0
  /\ projects_embedded = 0
  /\ projects = <<>>
  /\ match_log = <<>>
  /\ all_recommendations = <<>>
  /\ total_recommendations = 0
  /\ notified_count = 0
  /\ notifier_calls = <<>>
  /\ slack_messages = <<>>
  /\ result = None

NoSched == [pc |-> "off"]

NoReg == [pc |-> "off"]

\* the two processes of the concurrent scenario
Procs == {"A", "B"}

NoRuns == [p \in Procs |-> [seed |-> 0, next |-> 0, failed |-> FALSE]]

ElsewhereIdle ==
  /\ dismiss_calls = {}
  /\ runs = NoRuns
  /\ sched = NoSched
  /\ reg = NoReg

\* get_project: .eq("id", project_id).single().execute().  With one matching
\* row the row comes back.  With none, single() makes the store answer with an
\* error instead of an empty result, which the client raises as APIError; the
\* `if result.data else None` branch is what runs if data comes back empty.
GetProject(pid) ==
  IF pid \in DOMAIN gt_my_projects THEN {"row"} ELSE {"None", "APIError"}

\* ------------------------------------------------------------------------
\* Recommender.match_project_to_repos
\* ------------------------------------------------------------------------
QualityScore(overall_score) ==
  Min(Scale, ((IF TruthyInt(overall_score) THEN overall_score[1] ELSE DEFAULT_QUALITY) * Scale)
             \div QUALITY_DEN)

FinalScoreSwapped(embedding_sim, stack_score, quality_score) ==
  W_STACK * embedding_sim + W_SIM * stack_score + W_QUALITY * quality_score

FinalScore(embedding_sim, stack_score, quality_score) ==
  W_SIM * embedding_sim + W_STACK * stack_score + W_QUALITY * quality_score

ReasonsInclusive(embedding_sim, overlaps, stars_today) ==
  (IF embedding_sim >= SEMANTIC_THRESHOLD
   THEN << [type |-> "semantic", text |-> <<"Semantically similar to your project">>] >>
   ELSE <<>>)
  \o (IF overlaps # <<>>
      THEN << [type |-> "stack", text |-> <<"Stack overlap: ">> \o overlaps] >>
      ELSE <<>>)
  \o (IF stars_today >= TRENDING_THRESHOLD
      THEN << [type |-> "trending", text |-> <<"Hot today: +", ToString(stars_today), " stars">>] >>
      ELSE <<>>)

Reasons(embedding_sim, overlaps, stars_today) ==
  (IF embedding_sim > SEMANTIC_THRESHOLD
   THEN << [type |-> "semantic", text |-> <<"Semantically similar to your project">>] >>
   ELSE <<>>)
  \o (IF overlaps # <<>>
      THEN << [type |-> "stack", text |-> <<"Stack overlap: ">> \o overlaps] >>
      ELSE <<>>)
  \o (IF stars_today > TRENDING_THRESHOLD
      THEN << [type |-> "trending", text |-> <<"Hot today: +", ToString(stars_today), " stars">>] >>
      ELSE <<>>)

\* one iteration of the loop over similar_repos
ScoreCandidate(project, repo_match, metadata, seed) ==
  LET repo_id == repo_match.repository_id
      embedding_sim == repo_match.similarity
      repo_data == Get(metadata, repo_id, <<>>)
      so == CalculateStackOverlap(Get(project, "tech_stack", <<>>),
                                  Get(project, "tags", <<>>),
                                  Get(repo_data, "language", None),
                                  Get(repo_data, "topics", <<>>),
                                  seed)
      overall_score == Get(repo_data, "overall_score", None)
      quality_score == QualityScore(overall_score)
  IN [repo_id |-> repo_id,
      full_name |-> repo_match.full_name,
      embedding_sim |-> embedding_sim,
      stack_score |-> so.score,
      overlaps |-> so.overlaps,
      overall_score |-> overall_score,
      quality_score |-> quality_score,
      final_score |-> FinalScore(embedding_sim, so.score, quality_score),
      reasons |-> Reasons(embedding_sim, so.overlaps, Get(repo_data, "stars_today", 0)),
      stars |-> Get(repo_data, "stars", 0)]

RecommendationRow(pid, c) ==
  [project_id |-> pid,
   repository_id |-> c.repo_id,
   score |-> c.final_score,
   reasons |-> c.reasons,
   embedding_similarity |-> c.embedding_sim,
   stack_overlap_score |-> c.stack_score,
   status |-> "new"]

RecommendationDict(c) ==
  [repo_id |-> c.repo_id, full_name |-> c.full_name, score |-> c.final_score,
   reasons |-> c.reasons, stars |-> c.stars]

Take(s, n) == SubSeq(s, 1, Min(n, Len(s)))

InsertBeforeEqual(sorted, x) ==
  LET k == Cardinality({i \in DOMAIN sorted : sorted[i].score > x.score})
  IN SubSeq(sorted, 1, k) \o <<x>> \o SubSeq(sorted, k + 1, Len(sorted))

\* place x after every element whose key is >= its own
InsertAfterEqual(sorted, x) ==
  LET k == Cardinality({i \in DOMAIN sorted : sorted[i].score >= x.score})
  IN SubSeq(sorted, 1, k) \o <<x>> \o SubSeq(sorted, k + 1, Len(sorted))

\* list.sort(key=score, reverse=True): stable, descending
RECURSIVE SortByScoreDesc(_)
SortByScoreDesc(s) ==
  IF s = <<>> THEN <<>>
  ELSE InsertAfterEqual(SortByScoreDesc(SubSeq(s, 1, Len(s) - 1)), s[Len(s)])

MetadataCallsPerCandidate(repo_ids) == [i \in DOMAIN repo_ids |-> << repo_ids[i] >>]

\* repo_metadata = self.storage.get_repo_metadata_by_ids(repo_ids): one call,
\* made before the loop, with the ids of all candidates
MetadataCalls(repo_ids) == << repo_ids >>

TruncateThenSort(recs, lim) == SortByScoreDesc(Take(recs, lim))

\* sort, then recommendations[:limit]
SortAndTruncate(recs, lim) == Take(SortByScoreDesc(recs), lim)

PersistedRowsReturnedOnly(pid, sc, lim) ==
  LET top == SortAndTruncate([i \in DOMAIN sc |-> RecommendationDict(sc[i])], lim)
      kept == {i \in DOMAIN sc : \E j \in DOMAIN top : top[j].repo_id = sc[i].repo_id}
  IN [k \in 1..Cardinality(kept) |->
        RecommendationRow(pid, sc[CHOOSE i \in kept :
                                     Cardinality({h \in kept : h < i}) = k - 1])]

\* save_recommendation is called in the loop body, once per candidate, before
\* the list is sorted and cut to `limit`
PersistedRows(pid, sc, lim) ==
  [i \in DOMAIN sc |-> RecommendationRow(pid, sc[i])]

Match(pid, lim, min_stars, cands) ==
  LET project == gt_my_projects[pid]
      metadata == GetRepoMetadataByIds([i \in DOMAIN cands |-> cands[i].repository_id])
      sc == [i \in DOMAIN cands |-> ScoreCandidate(project, cands[i], metadata, hashseed)]
      rows == PersistedRows(pid, sc, lim)
      recs == [i \in DOMAIN sc |-> RecommendationDict(sc[i])]
  IN /\ project_id' = pid
     /\ limit' = lim
     /\ similar_repos' = cands
     /\ repo_metadata' = metadata
     /\ metadata_calls' = MetadataCalls([i \in DOMAIN cands |-> cands[i].repository_id])
     /\ scored' = sc
     /\ gt_recommendations' = SaveAll(gt_recommendations, rows)
     /\ recommendations' = SortByScoreDesc(recs)
     /\ returned' = SortAndTruncate(recs, lim)
     /\ overwrote' = \E i \in DOMAIN rows : \E x \in gt_recommendations :
                         SameKey(x, rows[i]) /\ x # rows[i]
     /\ raised' = ""
     /\ UNCHANGED << tables, elsewhere, hashseed, embeddings >>

\* get_project returned None: return [] before any other store call
MatchUnresolved(pid, lim) ==
  /\ project_id' = pid
  /\ limit' = lim
  /\ similar_repos' = <<>>
  /\ repo_metadata' = <<>>
  /\ metadata_calls' = <<>>
  /\ scored' = <<>>
  /\ recommendations' = <<>>
  /\ returned' = <<>>
  /\ overwrote' = FALSE
  /\ raised' = ""
  /\ UNCHANGED << tables, elsewhere, hashseed, gt_recommendations, embeddings >>

\* get_project raised: the exception leaves match_project_to_repos
MatchRaises(pid, lim, exc) ==
  /\ project_id' = pid
  /\ limit' = lim
  /\ similar_repos' = <<>>
  /\ repo_metadata' = <<>>
  /\ metadata_calls' = <<>>
  /\ scored' = <<>>
  /\ recommendations' = <<>>
  /\ returned' = <<>>
  /\ overwrote' = FALSE
  /\ raised' = exc
  /\ UNCHANGED << tables, elsewhere, hashseed, gt_recommendations, embeddings >>

MatchProjectToRepos ==
  /\ \E pid \in ProjectIds, lim \in LimitValues, min_stars \in MinStarsValues :
       \E got \in GetProject(pid) :
         CASE got = "row" ->
                \E cands \in FindSimilarRepos(pid, lim * 2, min_stars) :
                  Match(pid, lim, min_stars, cands)
           [] got = "None" -> MatchUnresolved(pid, lim)
           [] OTHER -> MatchRaises(pid, lim, got)
  /\ UNCHANGED pipeline

\* a new interpreter process starts with a fresh str hash seed
Restart ==
  /\ \E s \in HashSeeds : s # hashseed /\ hashseed' = s
  /\ UNCHANGED << tables, elsewhere, gt_recommendations, match_locals, raised,
                  embeddings, pipeline >>

Init ==
  /\ gt_my_projects = InitProjects
  /\ gt_repositories = InitRepositories
  /\ gt_analyses = InitAnalyses
  /\ gt_trending = InitTrending
  /\ gt_recommendations = {}
  /\ hashseed \in HashSeeds
  /\ project_id = ""
  /\ limit = 0
  /\ similar_repos = <<>>
  /\ repo_metadata = <<>>
  /\ scored = <<>>
  /\ recommendations = <<>>
  /\ returned = <<>>
  /\ overwrote = FALSE
  /\ metadata_calls = <<>>
  /\ raised = ""
  /\ repo_embedding = DOMAIN InitRepositories
  /\ project_embedding = DOMAIN InitProjects
  /\ embed_call = NoEmbedCall
  /\ PipelineIdle
  /\ ElsewhereIdle

Next ==
  \/ MatchProjectToRepos
  \/ Restart

Spec == Init /\ [][Next]_vars

TypeOK ==
  /\ hashseed \in HashSeeds
  /\ limit \in {0, DEFAULT_LIMIT} \cup LimitValues
  /\ Len(scored) = Len(similar_repos)
  /\ Len(returned) <= Len(recommendations)

\* ------------------------------------------------------------------------
\* match_project_to_repos when the similarity store names a repository the
\* metadata lookup no longer finds (the row went between the two reads)
\* ------------------------------------------------------------------------
StaleRepo(sim) ==
  [repository_id |-> "r9", full_name |-> "acme/gone", similarity |-> sim]

InsertAt(s, k, x) == SubSeq(s, 1, k) \o <<x>> \o SubSeq(s, k + 1, Len(s))

\* find_similar_repos results with the stale row at any position
FindSimilarReposStale(p_project_id, p_limit, p_min_stars) ==
  UNION { { InsertAt(s, k, StaleRepo(sim)) :
              k \in 0..Len(s), sim \in SimValues(p_project_id) }
          : s \in FindSimilarRepos(p_project_id, p_limit - 1, p_min_stars) }

\* the first match call against an empty gt_recommendations
MatchStale ==
  /\ gt_recommendations = {}
  /\ \E pid \in DOMAIN gt_my_projects, lim \in LimitValues,
        min_stars \in MinStarsValues :
       \E cands \in FindSimilarReposStale(pid, lim * 2, min_stars) :
         Match(pid, lim, min_stars, cands)
  /\ UNCHANGED pipeline

NextStale == MatchStale

SpecStale == Init /\ [][NextStale]_vars

\* ------------------------------------------------------------------------
\* Matching project p1 again after some of its recommendations were dismissed
\* ------------------------------------------------------------------------
\* dismiss_recommendation: update status to "dismissed" where id = the row's id
DismissRecommendation(table, row) ==
  (table \ {row}) \cup {[row EXCEPT !.status = "dismissed"]}

Dismiss ==
  /\ \E row \in gt_recommendations :
       /\ row.status = "new"
       /\ gt_recommendations' = DismissRecommendation(gt_recommendations, row)
       /\ dismiss_calls' = dismiss_calls \cup {<< row.project_id, row.repository_id >>}
  /\ UNCHANGED << tables, hashseed, match_locals, raised, embeddings, pipeline,
                  runs, sched, reg >>

MatchAgain ==
  /\ \E lim \in LimitValues, min_stars \in MinStarsValues :
       \E cands \in FindSimilarRepos("p1", lim * 2, min_stars) :
         Match("p1", lim, min_stars, cands)
  /\ UNCHANGED pipeline

NextDismiss ==
  \/ MatchAgain
  \/ Dismiss

SpecDismiss == Init /\ [][NextDismiss]_vars

\* ------------------------------------------------------------------------
\* Two processes inside match_project_to_repos for the same project at the
\* same time, each with its own str hash seed; the store serialises the
\* single-row upserts in any order
\* ------------------------------------------------------------------------
\* both repositories share two terms with project p1
InitConcurrentRepositories ==
  [r \in {"r1", "r2"} |->
     IF r = "r1" THEN InitRepositories["r1"]
     ELSE [id |-> "r2", full_name |-> "acme/svc", language |-> Some("python"),
           topics |-> <<"FastAPI">>, stars |-> 300, created_at |-> 2]]

\* both processes have read the project, the candidates and the metadata
StartRuns ==
  /\ \A p \in Procs : runs[p].next = 0
  /\ \E pid \in DOMAIN gt_my_projects, lim \in LimitValues,
        min_stars \in MinStarsValues :
       \E cands \in FindSimilarRepos(pid, lim * 2, min_stars) :
         /\ project_id' = pid
         /\ limit' = lim
         /\ similar_repos' = cands
         /\ repo_metadata' =
              GetRepoMetadataByIds([i \in DOMAIN cands |-> cands[i].repository_id])
  /\ \E seeds \in [Procs -> HashSeeds] :
       runs' = [p \in Procs |-> [seed |-> seeds[p], next |-> 1, failed |-> FALSE]]
  /\ UNCHANGED << tables, gt_recommendations, hashseed, scored, recommendations,
                  returned, overwrote, metadata_calls, raised, embeddings,
                  pipeline, dismiss_calls, sched, reg >>

\* one pass of the loop in process p up to its save_recommendation, which
\* either commits or raises and ends that process's call
SaveNext(p) ==
  /\ runs[p].next \in DOMAIN similar_repos
  /\ ~runs[p].failed
  /\ \/ /\ gt_recommendations' =
             SaveRecommendation(gt_recommendations,
               RecommendationRow(project_id,
                 ScoreCandidate(gt_my_projects[project_id],
                                similar_repos[runs[p].next],
                                repo_metadata, runs[p].seed)))
        /\ runs' = [runs EXCEPT ![p].next = @ + 1]
     \/ /\ runs' = [runs EXCEPT ![p].failed = TRUE]
        /\ UNCHANGED gt_recommendations
  /\ UNCHANGED << tables, hashseed, match_locals, raised, embeddings, pipeline,
                  dismiss_calls, sched, reg >>

InitConcurrent ==
  /\ gt_my_projects = InitProjects
  /\ gt_repositories = InitConcurrentRepositories
  /\ gt_analyses = InitAnalyses
  /\ gt_trending = InitTrending
  /\ gt_recommendations = {}
  /\ hashseed = 0
  /\ project_id = ""
  /\ limit = 0
  /\ similar_repos = <<>>
  /\ repo_metadata = <<>>
  /\ scored = <<>>
  /\ recommendations = <<>>
  /\ returned = <<>>
  /\ overwrote = FALSE
  /\ metadata_calls = <<>>
  /\ raised = ""
  /\ repo_embedding = DOMAIN InitRepositories
  /\ project_embedding = DOMAIN InitProjects
  /\ embed_call = NoEmbedCall
  /\ PipelineIdle
  /\ ElsewhereIdle

NextConcurrent ==
  \/ StartRuns
  \/ \E p \in Procs : SaveNext(p)

SpecConcurrent == InitConcurrent /\ [][NextConcurrent]_vars

\* ------------------------------------------------------------------------
\* cli.schedule: the daily loop around _run_sync_pipeline
\* ------------------------------------------------------------------------
\* timedelta(days=1) in clock ticks
Day == SlotsPerDay * TicksPerSlot

\* now.replace(hour=hour, minute=minute, second=0, microsecond=0)
ReplaceTime(now, slot) == (now \div Day) * Day + slot * TicksPerSlot

NextRunAtSameInstant(now, slot) ==
  LET target == ReplaceTime(now, slot)
  IN IF target < now THEN target + Day ELSE target

\* _next_run_at
NextRunAt(now, slot) ==
  LET target == ReplaceTime(now, slot)
  IN IF target <= now THEN target + Day ELSE target

\* how long one statement of the loop may take on the clock
Durations == {0, 1, TicksPerSlot, Day + 1}

SyncOutcomes == {"ok", "Exception"}

\* the failure notification: not asked for, notifier not configured, message
\* sent, or SlackNotifier / send_message raising
FailureNoticeOutcomes(notify) ==
  IF notify THEN {"unconfigured", "sent", "Exception"} ELSE {"skipped"}

not_sched == << tables, gt_recommendations, hashseed, match_locals, raised,
                embeddings, pipeline, dismiss_calls, runs, reg >>

\* the argument check, then the first pass of `while True`
ScheduleStart ==
  /\ sched.pc = "off"
  /\ \E slot \in 0..SlotsPerDay, notify \in BOOLEAN, now \in 0..(Day - 1) :
       sched' = [pc |-> IF slot < SlotsPerDay THEN "compute" ELSE "rejected",
                 now |-> now, slot |-> slot, notify |-> notify,
                 run_at |-> 0, n_runs |-> 0, last |-> "", notice |-> "",
                 stopped_by |-> ""]
  /\ UNCHANGED not_sched

\* run_at = _next_run_at(hour, minute)
ScheduleCompute ==
  /\ sched.pc = "compute"
  /\ sched' = [sched EXCEPT !.pc = "sleeping",
                            !.run_at = NextRunAt(sched.now, sched.slot)]
  /\ UNCHANGED not_sched

\* wait_seconds = max(0, run_at - datetime.now()); time.sleep(wait_seconds)
ScheduleSleep ==
  /\ sched.pc = "sleeping"
  /\ \E before \in Durations, late \in {0, 1} :
       LET now2 == sched.now + before
           wait_seconds == IF sched.run_at - now2 > 0 THEN sched.run_at - now2 ELSE 0
           woke == now2 + wait_seconds + late
       IN /\ woke <= MaxNow
          /\ sched' = [sched EXCEPT !.pc = "running", !.now = woke]
  /\ UNCHANGED not_sched

\* asyncio.run(_run_sync_pipeline(...)) inside try / except Exception
ScheduleRun ==
  /\ sched.pc = "running"
  /\ \E outcome \in SyncOutcomes, took \in Durations :
       /\ sched.now + took <= MaxNow
       /\ sched' = [sched EXCEPT !.pc = IF outcome = "ok" THEN "compute" ELSE "failed",
                                 !.now = sched.now + took,
                                 !.n_runs = sched.n_runs + 1,
                                 !.last = outcome,
                                 !.notice = ""]
  /\ UNCHANGED not_sched

\* the except block: the failure message, itself inside try / except Exception
ScheduleFailureNotice ==
  /\ sched.pc = "failed"
  /\ \E notice \in FailureNoticeOutcomes(sched.notify) :
       sched' = [sched EXCEPT !.pc = "compute", !.notice = notice]
  /\ UNCHANGED not_sched

\* Ctrl+C anywhere inside the outer try
ScheduleInterrupt ==
  /\ sched.pc \in {"compute", "sleeping", "running", "failed"}
  /\ sched' = [sched EXCEPT !.pc = "stopped", !.stopped_by = "KeyboardInterrupt"]
  /\ UNCHANGED not_sched

NextSchedule ==
  \/ ScheduleStart
  \/ ScheduleCompute
  \/ ScheduleSleep
  \/ ScheduleRun
  \/ ScheduleFailureNotice
  \/ ScheduleInterrupt

SpecSchedule == Init /\ [][NextSchedule]_vars

\* ------------------------------------------------------------------------
\* Project auto-registration: FolderScanner.sync_to_storage and
\* sync_github_repos, one pass of their loop per step
\* ------------------------------------------------------------------------
\* names of the scanned folders / GitHub repositories; alpha and beta are
\* registered already
InputNames == {"alpha", "beta", "delta", "Alpha"}

RegisterSources == {"folder", "github"}

RECURSIVE SeqsUpTo(_, _)
SeqsUpTo(S, n) ==
  IF n = 0 THEN {<<>>}
  ELSE LET shorter == SeqsUpTo(S, n - 1)
       IN shorter \cup {Append(q, x) : q \in {t \in shorter : Len(t) = n - 1}, x \in S}

GetProjectByNameAtStart(table, name) ==
  {p \in DOMAIN table \cap DOMAIN InitProjects : table[p].name = name}

\* get_project_by_name: the ids of the rows with exactly this name
GetProjectByName(table, name) ==
  {p \in DOMAIN table : table[p].name = name}

\* the row the store makes of project_data: a fresh id, the defaults of the
\* columns project_data does not give
NewProjectRow(table, name) ==
  [id |-> "n" \o ToString(Cardinality(DOMAIN table) + 1),
   name |-> name, tech_stack |-> << "Go" >>, tags |-> << "scanned" >>,
   is_active |-> TRUE,
   created_at |-> Cardinality(DOMAIN table) + 1]

\* upsert_project: a plain insert
UpsertProject(table, row) ==
  [p \in DOMAIN table \cup {row.id} |-> IF p = row.id THEN row ELSE table[p]]

not_reg == << gt_repositories, gt_analyses, gt_trending, gt_recommendations, hashseed,
              match_locals, raised, pipeline, dismiss_calls, runs, sched >>

RegisterStart ==
  /\ reg.pc = "off"
  /\ \E source \in RegisterSources, auto_match \in BOOLEAN,
        inputs \in SeqsUpTo(InputNames, MaxInputs) :
       /\ source = "github" => ~auto_match
       /\ reg' = [pc |-> "loop", source |-> source, auto_match |-> auto_match,
                  inputs |-> inputs, idx |-> 0, created |-> 0, skipped |-> 0,
                  inserted |-> <<>>]
  /\ UNCHANGED << gt_my_projects, embeddings, not_reg >>

\* one pass of `for project in projects` / `for repo in repos`
RegisterOne ==
  /\ reg.pc = "loop"
  /\ reg.idx < Len(reg.inputs)
  /\ LET name == reg.inputs[reg.idx + 1]
         existing == GetProjectByName(gt_my_projects, name)
     IN IF existing # {}
        THEN /\ reg' = [reg EXCEPT !.idx = reg.idx + 1, !.skipped = reg.skipped + 1]
             /\ UNCHANGED gt_my_projects
        ELSE /\ gt_my_projects' = UpsertProject(gt_my_projects,
                                                NewProjectRow(gt_my_projects, name))
             /\ reg' = [reg EXCEPT !.idx = reg.idx + 1, !.created = reg.created + 1,
                                   !.inserted = Append(reg.inserted, name)]
  /\ UNCHANGED << embeddings, not_reg >>

\* after the loop: the result dict and, in sync_to_storage with auto_match and
\* something created, embed_new_projects (its exceptions swallowed); the
\* run_full_pipeline call that follows is the pipeline of SpecPipeline
RegisterFinish ==
  /\ reg.pc = "loop"
  /\ reg.idx = Len(reg.inputs)
  /\ reg' = [reg EXCEPT !.pc = "done"]
  /\ IF reg.source = "folder" /\ reg.auto_match /\ reg.created > 0
     THEN \E outcome \in OutcomeChoices(Len(GetProjectsWithoutEmbedding)) :
            EmbedNewProjects(GetProjectsWithoutEmbedding, outcome)
     ELSE UNCHANGED embeddings
  /\ UNCHANGED << gt_my_projects, not_reg >>

NextRegister ==
  \/ RegisterStart
  \/ RegisterOne
  \/ RegisterFinish

SpecRegister == Init /\ [][NextRegister]_vars

\* ------------------------------------------------------------------------
\* Recommender.run_full_pipeline, one statement group per step
\* ------------------------------------------------------------------------
\* gt_my_projects with an inactive third project
InitPipelineProjects ==
  [p \in {"p1", "p2", "p3"} |->
     IF p = "p3"
     THEN [id |-> "p3", name |-> "gamma", tech_stack |-> <<"Go">>,
           tags |-> <<>>, is_active |-> FALSE, created_at |-> 3]
     ELSE InitProjects[p]]

\* score_threshold arguments: 0.45, which some scores equal, and 0.9, which
\* no score reaches
ThresholdValues == {(45 * ScoreOne) \div 100, (9 * ScoreOne) \div 10}

\* what SlackNotifier.notify_recommendations can do: deliver (True); return
\* False because it is not configured, because the post raised
\* httpx.RequestError or because the answer says ok: false; or let the
\* ValueError of response.json() on a body that is not JSON escape
DeliveryOutcomes == {"ok", "unconfigured", "request_error", "not_ok", "bad_body"}

\* one send_message call and whether Slack took the message
SlackMessage(kind, delivery) == [kind |-> kind, delivered |-> (delivery = "ok")]

Reverse(s) == [i \in DOMAIN s |-> s[Len(s) + 1 - i]]

GetProjectsAll ==
  Reverse(RowsInTableOrder(gt_my_projects, DOMAIN gt_my_projects))

\* get_projects(): is_active rows, newest first
GetProjects ==
  Reverse(RowsInTableOrder(gt_my_projects,
                           {p \in DOMAIN gt_my_projects : gt_my_projects[p].is_active}))

HighScoreRecsStrict(recs, threshold) ==
  SelectSeq(recs, LAMBDA r : r.score > threshold)

\* [r for r in all_recommendations if r.get("score", 0) >= score_threshold]
HighScoreRecs(recs, threshold) ==
  SelectSeq(recs, LAMBDA r : r.score >= threshold)

\* r["project_name"] = project.get("name", "")
WithProjectName(r, name) ==
  [repo_id |-> r.repo_id, full_name |-> r.full_name, score |-> r.score,
   reasons |-> r.reasons, stars |-> r.stars, project_name |-> name]

Summary(notified) ==
  [repos_embedded |-> repos_embedded,
   projects_embedded |-> projects_embedded,
   projects_matched |-> Len(projects),
   total_recommendations |-> total_recommendations,
   notified_count |-> notified]

PipelineStart ==
  /\ pc = "idle"
  /\ \E min_stars \in MinStarsValues, notify \in BOOLEAN,
        score_threshold \in ThresholdValues :
       args' = [min_stars |-> min_stars, notify |-> notify,
                score_threshold |-> score_threshold]
  /\ pc' = "embed_repos"
  /\ UNCHANGED << tables, elsewhere, gt_recommendations, hashseed, match_locals, raised,
                  embeddings, repos_embedded, projects_embedded, projects,
                  match_log, all_recommendations, total_recommendations,
                  notified_count, notifier_calls, slack_messages, result >>

PipelineEmbedRepos ==
  /\ pc = "embed_repos"
  /\ \E selected \in GetReposWithoutEmbedding(DEFAULT_EMBED_LIMIT) :
       \E outcome \in OutcomeChoices(Len(selected)) :
         /\ EmbedNewRepos(selected, outcome)
         /\ repos_embedded' = CountOf(ProcessItems(selected, outcome))
  /\ pc' = "embed_projects"
  /\ UNCHANGED << tables, elsewhere, gt_recommendations, hashseed, match_locals, raised,
                  args, projects_embedded, projects, match_log,
                  all_recommendations, total_recommendations, notified_count,
                  notifier_calls, slack_messages, result >>

\* embed_new_projects, then projects = self.storage.get_projects()
PipelineEmbedProjects ==
  /\ pc = "embed_projects"
  /\ \E outcome \in OutcomeChoices(Len(GetProjectsWithoutEmbedding)) :
       /\ EmbedNewProjects(GetProjectsWithoutEmbedding, outcome)
       /\ projects_embedded' = CountOf(ProcessItems(GetProjectsWithoutEmbedding, outcome))
  /\ projects' = GetProjects
  /\ pc' = IF GetProjects = <<>> THEN "notify" ELSE "match"
  /\ UNCHANGED << tables, elsewhere, gt_recommendations, hashseed, match_locals, raised,
                  args, repos_embedded, match_log, all_recommendations,
                  total_recommendations, notified_count, notifier_calls,
                  slack_messages, result >>

AfterMatchStopOnEmpty(recs, n_matched) ==
  IF recs = <<>> \/ n_matched = Len(projects) THEN "notify" ELSE "match"

AfterMatchFirstOnly(recs, n_matched) == "notify"

\* where the loop goes after one pass: to the next project while one is left,
\* whatever the pass returned
AfterMatch(recs, n_matched) ==
  IF n_matched = Len(projects) THEN "notify" ELSE "match"

\* one pass of `for project in projects`
PipelineMatch ==
  /\ pc = "match"
  /\ LET pid == projects[Len(match_log) + 1]
     IN /\ \E cands \in FindSimilarRepos(pid, DEFAULT_LIMIT * 2, args.min_stars) :
             Match(pid, DEFAULT_LIMIT, args.min_stars, cands)
        /\ LET recs == [i \in DOMAIN returned' |->
                          WithProjectName(returned'[i], Get(gt_my_projects[pid], "name", ""))]
           IN /\ all_recommendations' = all_recommendations \o recs
              /\ total_recommendations' = total_recommendations + Len(recs)
              /\ match_log' = Append(match_log, [project_id |-> pid, recs |-> returned'])
  /\ pc' = AfterMatch(returned', Len(match_log) + 1)
  /\ UNCHANGED << args, repos_embedded, projects_embedded, projects,
                  notified_count, notifier_calls, slack_messages, result >>

\* the notification block and the return statement
PipelineNotify ==
  /\ pc = "notify"
  /\ LET high_score_recs == HighScoreRecs(all_recommendations, args.score_threshold)
     IN IF args.notify /\ high_score_recs # <<>>
        THEN /\ notifier_calls' = Append(notifier_calls,
                                         [recommendations |-> high_score_recs,
                                          threshold |-> args.score_threshold])
             /\ \E delivery \in DeliveryOutcomes :
                  /\ slack_messages' = Append(slack_messages,
                                              SlackMessage("recommendations", delivery))
                  /\ IF delivery = "bad_body"
                     THEN /\ raised' = "ValueError"
                          /\ pc' = "raised"
                          /\ UNCHANGED << notified_count, result >>
                     ELSE /\ notified_count' = IF delivery = "ok" THEN Len(high_score_recs) ELSE 0
                          /\ result' = Some(Summary(notified_count'))
                          /\ pc' = "done"
                          /\ UNCHANGED raised
        ELSE /\ result' = Some(Summary(notified_count))
             /\ pc' = "done"
             /\ UNCHANGED << notifier_calls, slack_messages, notified_count, raised >>
  /\ UNCHANGED << tables, elsewhere, gt_recommendations, hashseed, match_locals, embeddings,
                  args, repos_embedded, projects_embedded, projects, match_log,
                  all_recommendations, total_recommendations >>

InitPipeline ==
  /\ gt_my_projects = InitPipelineProjects
  /\ gt_repositories = InitRepositories
  /\ gt_analyses = InitAnalyses
  /\ gt_trending = InitTrending
  /\ gt_recommendations = {}
  /\ hashseed = 0
  /\ project_id = ""
  /\ limit = 0
  /\ similar_repos = <<>>
  /\ repo_metadata = <<>>
  /\ scored = <<>>
  /\ recommendations = <<>>
  /\ returned = <<>>
  /\ overwrote = FALSE
  /\ metadata_calls = <<>>
  /\ raised = ""
  /\ repo_embedding = {"r1"}
  /\ project_embedding = {"p1", "p3"}
  /\ embed_call = NoEmbedCall
  /\ PipelineIdle
  /\ ElsewhereIdle

NextPipeline ==
  \/ PipelineStart
  \/ PipelineEmbedRepos
  \/ PipelineEmbedProjects
  \/ PipelineMatch
  \/ PipelineNotify

SpecPipeline == InitPipeline /\ [][NextPipeline]_vars

\* ------------------------------------------------------------------------
\* _run_sync_pipeline: the matching pipeline, then the Slack branch after it
\* ------------------------------------------------------------------------
SendsTrendingSummaryAlways(notify, notified) == notify

\* `if notify and notified_count > 0: ... elif notify: notify_trending_summary`
SendsTrendingSummary(notify, notified) == notify /\ ~(notified > 0)

SyncAfterPipeline ==
  /\ pc = "done"
  /\ IF SendsTrendingSummary(args.notify, Get(result[1], "notified_count", 0))
     THEN \E delivery \in DeliveryOutcomes :
            /\ slack_messages' = Append(slack_messages,
                                        SlackMessage("trending_summary", delivery))
            /\ IF delivery = "bad_body"
               THEN raised' = "ValueError" /\ pc' = "raised"
               ELSE pc' = "synced" /\ UNCHANGED raised
     ELSE /\ pc' = "synced"
          /\ UNCHANGED << slack_messages, raised >>
  /\ UNCHANGED << tables, elsewhere, gt_recommendations, hashseed, match_locals, embeddings,
                  args, repos_embedded, projects_embedded, projects, match_log,
                  all_recommendations, total_recommendations, notified_count,
                  notifier_calls, result >>

NextSync ==
  \/ PipelineStart
  \/ PipelineEmbedRepos
  \/ PipelineEmbedProjects
  \/ PipelineMatch
  \/ PipelineNotify
  \/ SyncAfterPipeline

SpecSync == InitPipeline /\ [][NextSync]_vars

\* ------------------------------------------------------------------------
\* The embedding backfill run again and again (run_full_pipeline lines
\* 150-151, once per scheduled sync) over a store with more rows than one
\* embed_new_repos call selects
\* ------------------------------------------------------------------------
InitBackfillRepositories ==
  [r \in 1..NumBackfillRepos |->
     [id |-> r, full_name |-> "acme/bulk", language |-> None, topics |-> <<>>,
      stars |-> 0, created_at |-> r]]

InitBackfillProjects ==
  [p \in 1..NumBackfillProjects |->
     [id |-> p, name |-> "proj", tech_stack |-> <<>>, tags |-> <<>>,
      is_active |-> (p # NumBackfillProjects), created_at |-> p]]

\* repos_embedded = self.embed_new_repos()
BackfillRepos ==
  /\ embed_call.kind # "repos"
  /\ \E selected \in GetReposWithoutEmbedding(DEFAULT_EMBED_LIMIT) :
       \E outcome \in OutcomeChoices(Len(selected)) :
         EmbedNewRepos(selected, outcome)
  /\ UNCHANGED << tables, elsewhere, gt_recommendations, hashseed, match_locals, raised,
                  pipeline >>

\* projects_embedded = self.embed_new_projects()
BackfillProjects ==
  /\ embed_call.kind = "repos"
  /\ \E outcome \in OutcomeChoices(Len(GetProjectsWithoutEmbedding)) :
       EmbedNewProjects(GetProjectsWithoutEmbedding, outcome)
  /\ UNCHANGED << tables, elsewhere, gt_recommendations, hashseed, match_locals, raised,
                  pipeline >>

InitBackfill ==
  /\ gt_my_projects = InitBackfillProjects
  /\ gt_repositories = InitBackfillRepositories
  /\ gt_analyses = <<>>
  /\ gt_trending = {}
  /\ gt_recommendations = {}
  /\ hashseed = 0
  /\ project_id = ""
  /\ limit = 0
  /\ similar_repos = <<>>
  /\ repo_metadata = <<>>
  /\ scored = <<>>
  /\ recommendations = <<>>
  /\ returned = <<>>
  /\ overwrote = FALSE
  /\ metadata_calls = <<>>
  /\ raised = ""
  /\ repo_embedding = {}
  /\ project_embedding = {}
  /\ embed_call = NoEmbedCall
  /\ PipelineIdle
  /\ ElsewhereIdle

NextBackfill ==
  \/ BackfillRepos
  \/ BackfillProjects

SpecBackfill == InitBackfill /\ [][NextBackfill]_vars

\* the scheduler's `while True` loop keeps starting runs, and each run makes
\* both backfill calls
SpecBackfillFair ==
  SpecBackfill /\ WF_vars(BackfillRepos) /\ WF_vars(BackfillProjects)

\* ------------------------------------------------------------------------
\* Properties
\* ------------------------------------------------------------------------
\* rows of gt_recommendations for one (project, repository) pair
RowsOf(table, pid, rid) == {x \in table : x.project_id = pid /\ x.repository_id = rid}

\* index of a repository in the list find_similar_repos returned
PosOf(rid) == CHOOSE i \in DOMAIN similar_repos : similar_repos[i].repository_id = rid

ReturnedIds == {returned[j].repo_id : j \in DOMAIN returned}

\* term sets of _calculate_stack_overlap, from the stored records
ProjectTerms(pid) ==
  {Lower(t) : t \in ToSet(gt_my_projects[pid].tech_stack) \cup ToSet(gt_my_projects[pid].tags)}

RepoTerms(rid) ==
  IF rid \notin DOMAIN repo_metadata THEN {}
  ELSE {Lower(t) : t \in ToSet(repo_metadata[rid].topics)}
       \cup (IF repo_metadata[rid].language = None \/ repo_metadata[rid].language = Some("")
             THEN {} ELSE {Lower(repo_metadata[rid].language[1])})

\* C1: every candidate processed by match_project_to_repos has a stored row
\* whose score is 0.5*embedding_similarity + 0.3*stack_overlap_score +
\* 0.2*normalized_quality, the two sub-scores being those stored in the same
\* row; the returned record of that candidate carries the same score.
C1_ScoreIsWeightedSum ==
  /\ \A i \in DOMAIN scored :
       /\ RowsOf(gt_recommendations, project_id, scored[i].repo_id) # {}
       /\ \A x \in RowsOf(gt_recommendations, project_id, scored[i].repo_id) :
            /\ x.embedding_similarity = similar_repos[i].similarity
            /\ x.stack_overlap_score = scored[i].stack_score
            /\ x.score = 5 * x.embedding_similarity + 3 * x.stack_overlap_score
                           + 2 * scored[i].quality_score
  /\ \A j \in DOMAIN returned :
       \E x \in RowsOf(gt_recommendations, project_id, returned[j].repo_id) :
         returned[j].score = x.score

\* similarity 0.82, overlap 2/3, quality 40 gives 0.41 + 0.2 + 0.08 = 0.69
C1_Witness ==
  \E i \in DOMAIN scored :
    /\ scored[i].embedding_sim = 492
    /\ scored[i].stack_score = 400
    /\ scored[i].quality_score = 240
    /\ \E x \in gt_recommendations :
         /\ x.project_id = project_id /\ x.repository_id = scored[i].repo_id
         /\ x.score = 4140
    /\ \E j \in DOMAIN returned : returned[j].score = 4140

\* C2: every recommendation persisted or returned has a composite score in
\* [0,1], whatever similarity the similarity store returned.
C2_ScoreInUnitInterval ==
  /\ \A x \in gt_recommendations : 0 <= x.score /\ x.score <= ScoreOne
  /\ \A j \in DOMAIN returned : 0 <= returned[j].score /\ returned[j].score <= ScoreOne

UniquePairs ==
  \A x, y \in gt_recommendations : SameKey(x, y) => x = y

\* a pair's row changes in a step only by being scored in that step, and then
\* holds the score and reasons computed in that step
LastWriteWins ==
  \A pid \in DOMAIN gt_my_projects, rid \in DOMAIN gt_repositories :
    \/ RowsOf(gt_recommendations', pid, rid) = RowsOf(gt_recommendations, pid, rid)
    \/ /\ pid = project_id'
       /\ \E i \in DOMAIN scored' :
            /\ scored'[i].repo_id = rid
            /\ \A x \in RowsOf(gt_recommendations', pid, rid) :
                 x.score = scored'[i].final_score /\ x.reasons = scored'[i].reasons

\* C3: the recommendation store holds at most one row per (project_id,
\* repository_id), and the row carries the score and reasons of the most
\* recent run that scored the pair.
C3_UpsertLastWriteWins ==
  /\ [](UniquePairs /\ \A i \in DOMAIN scored :
          \E x \in RowsOf(gt_recommendations, project_id, scored[i].repo_id) :
            x.score = scored[i].final_score /\ x.reasons = scored[i].reasons)
  /\ [][LastWriteWins]_vars

C3_Witness ==
  /\ overwrote
  /\ \E i \in DOMAIN scored :
       Cardinality(RowsOf(gt_recommendations, project_id, scored[i].repo_id)) = 1
  /\ \E x \in gt_recommendations : x.project_id # project_id

\* C4: a second match_project_to_repos run for the same project with the same
\* candidates and the same metadata leaves the recommendation store exactly
\* as the first run left it (same keys, scores, reasons and reason text).
C4_RerunIsIdempotent ==
  [][ ( /\ similar_repos' # <<>>
        /\ project_id' = project_id
        /\ similar_repos' = similar_repos
        /\ repo_metadata' = repo_metadata
        /\ gt_my_projects' = gt_my_projects )
      => gt_recommendations' = gt_recommendations ]_vars

\* C5: the returned list is non-increasing in score, and candidates with equal
\* score keep the order in which find_similar_repos returned them.
C5_SortedStable ==
  \A j, k \in DOMAIN returned :
    j < k => /\ returned[j].score >= returned[k].score
             /\ returned[j].score = returned[k].score
                  => PosOf(returned[j].repo_id) < PosOf(returned[k].repo_id)

C5_Witness ==
  /\ Len(returned) >= 2
  /\ returned[1].score = returned[2].score
  /\ returned[1].repo_id # returned[2].repo_id

\* C6: every candidate is scored before truncation: the returned list has at
\* most `limit` entries and no candidate left out scores strictly higher than
\* a returned one.
C6_TruncateAfterSort ==
  /\ Len(scored) = Len(similar_repos)
  /\ Len(returned) <= limit
  /\ Len(returned) = Min(limit, Len(similar_repos))
  /\ ReturnedIds \subseteq {similar_repos[i].repository_id : i \in DOMAIN similar_repos}
  /\ \A i \in DOMAIN scored :
       scored[i].repo_id \notin ReturnedIds
         => \A j \in DOMAIN returned : scored[i].final_score <= returned[j].score

C6_Witness ==
  /\ Len(similar_repos) > limit
  /\ Len(returned) = limit
  /\ similar_repos[1].repository_id \notin ReturnedIds
  /\ \E j \in DOMAIN returned : scored[1].final_score < returned[j].score

\* C7: normalized quality is min(1, q/100) with q the stored quality score
\* when one is set (0 included) and 50 only when it is unset.
C7_QualityDefaultOnlyWhenUnset ==
  \A i \in DOMAIN scored :
    LET stored == IF scored[i].repo_id \in DOMAIN repo_metadata
                  THEN repo_metadata[scored[i].repo_id].overall_score ELSE None
        q == IF stored = None THEN 50 ELSE stored[1]
    IN scored[i].quality_score * 100 = Min(100, q) * Scale

\* C8: the composite score is strictly increasing in each of the similarity,
\* the stack-overlap score and the stored quality score (0..100), the other
\* two held fixed.
C8_StrictlyIncreasing ==
  \A i, j \in DOMAIN scored :
    LET a == scored[i]
        b == scored[j]
    IN /\ ( a.stack_score = b.stack_score /\ a.overall_score = b.overall_score
            /\ a.embedding_sim < b.embedding_sim ) => a.final_score < b.final_score
       /\ ( a.embedding_sim = b.embedding_sim /\ a.overall_score = b.overall_score
            /\ a.stack_score < b.stack_score ) => a.final_score < b.final_score
       /\ ( a.embedding_sim = b.embedding_sim /\ a.stack_score = b.stack_score
            /\ a.overall_score # None /\ b.overall_score # None
            /\ a.overall_score[1] \in 0..100 /\ b.overall_score[1] \in 0..100
            /\ a.overall_score[1] < b.overall_score[1] ) => a.final_score < b.final_score

\* C9: _calculate_stack_overlap returns a score in [0,1], and (0.0, []) when
\* the project term set or the repository term set is empty.
C9_OverlapRangeAndEmpty ==
  \A i \in DOMAIN scored :
    /\ 0 <= scored[i].stack_score /\ scored[i].stack_score <= Scale
    /\ (ProjectTerms(project_id) = {} \/ RepoTerms(scored[i].repo_id) = {})
         => scored[i].stack_score = 0 /\ scored[i].overlaps = <<>>

C9_Witness ==
  \E i, j \in DOMAIN scored :
    /\ ProjectTerms(project_id) # {}
    /\ RepoTerms(scored[i].repo_id) = {}
    /\ scored[i].stack_score = 0 /\ scored[i].overlaps = <<>>
    /\ scored[j].stack_score > 0

C9_WitnessEmptyProject ==
  \E i \in DOMAIN scored :
    /\ ProjectTerms(project_id) = {}
    /\ RepoTerms(scored[i].repo_id) # {}
    /\ scored[i].stack_score = 0 /\ scored[i].overlaps = <<>>

\* C10: the overlap score is |P \cap R| / max(|P|, 1) capped at 1, P the
\* case-folded terms of tech_stack and tags, R the case-folded topics plus the
\* case-folded language when present; the matched terms are exactly P \cap R.
C10_OverlapIsIntersectionRatio ==
  \A i \in DOMAIN scored :
    LET P == ProjectTerms(project_id)
        R == RepoTerms(scored[i].repo_id)
    IN /\ scored[i].stack_score * Max(Cardinality(P), 1)
            = Min(Max(Cardinality(P), 1), Cardinality(P \cap R)) * Scale
       /\ ToSet(scored[i].overlaps) = P \cap R
       /\ Len(scored[i].overlaps) = Cardinality(P \cap R)

\* stack [Python, fastapi], tags [ai] against language python, topics
\* [FastAPI, web]: matched {python, fastapi}, score 2/3
C10_Witness ==
  \E i \in DOMAIN scored :
    /\ ProjectTerms(project_id) = {"python", "fastapi", "ai"}
    /\ RepoTerms(scored[i].repo_id) = {"python", "fastapi", "web"}
    /\ ToSet(scored[i].overlaps) = {"python", "fastapi"}
    /\ 3 * scored[i].stack_score = 2 * Scale

\* C11: two calls of _calculate_stack_overlap with identical inputs (same
\* project, same candidates, same metadata) return the matched terms in the same
\* order, so the text of the stack reason is the same in both.
C11_MatchedTermsDeterministic ==
  [][ ( /\ scored # <<>>
        /\ project_id' = project_id
        /\ similar_repos' = similar_repos
        /\ repo_metadata' = repo_metadata
        /\ tables' = tables )
      => \A i \in DOMAIN scored' :
           /\ scored'[i].overlaps = scored[i].overlaps
           /\ scored'[i].reasons = scored[i].reasons ]_vars

\* the reason types of a scored candidate, in the order they were appended
ReasonTypes(c) == [k \in DOMAIN c.reasons |-> c.reasons[k].type]

\* stars_today of a candidate as the metadata lookup reported it
StarsToday(rid) ==
  IF rid \in DOMAIN repo_metadata THEN repo_metadata[rid].stars_today ELSE 0

C12_WitnessBoundary ==
  \E i \in DOMAIN scored :
    /\ 10 * scored[i].embedding_sim = 7 * Scale
    /\ ReasonTypes(scored[i]) = << "trending" >>

\* the ids a backfill call made a pass for
Attempted(kind) ==
  IF embed_call.kind = kind
  THEN {embed_call.log[i].id : i \in DOMAIN embed_call.log}
  ELSE {}

\* C15: a failure while embedding or persisting one item does not abort the
\* backfill: every selected item gets its pass, a failed item is left without a
\* vector, and the returned count is the number of vectors stored.
C15_FailureSkipsOneItem ==
  LET log == embed_call.log
      has == IF embed_call.kind = "repos" THEN repo_embedding ELSE project_embedding
  IN embed_call.kind # "" =>
       /\ [i \in DOMAIN log |-> log[i].id] = embed_call.selected
       /\ \A i \in DOMAIN log : (log[i].outcome = "ok") <=> (log[i].id \in has)
       /\ embed_call.count = Cardinality({x \in ToSet(embed_call.selected) : x \in has})

\* a call whose first pass failed in embed_text, whose second failed in the
\* update, and whose third stored its vector
C15_Witness ==
  /\ Len(embed_call.log) = 3
  /\ embed_call.log[1].outcome = "embed_error"
  /\ embed_call.log[2].outcome = "update_error"
  /\ embed_call.log[3].outcome = "ok"
  /\ embed_call.count = 1

\* C16: after a backfill call in which no pass failed, no row of the table it
\* serves is left without a vector, however many lacked one before.
C16_BackfillCoversAll ==
  (embed_call.kind # "" /\ \A i \in DOMAIN embed_call.log : embed_call.log[i].outcome = "ok")
    => /\ embed_call.kind = "repos" => repo_embedding = DOMAIN gt_repositories
       /\ embed_call.kind = "projects" => project_embedding = DOMAIN gt_my_projects

\* C17: under repeated runs a repository left without a vector gets its
\* embedding call made again, so it ends up with a vector once that call
\* succeeds, whatever happens to the other items.
C17_FailedItemRetried ==
  (NumBackfillRepos \notin repo_embedding)
    ~> (NumBackfillRepos \in repo_embedding \cup Attempted("repos"))

\* C13: with notify set, the notifier is called exactly once, with exactly
\* the accumulated recommendations whose score is >= score_threshold, when
\* there are any; when there are none, or notify is not set, it is never
\* called and notified_count is 0.
C13_NotifyOnceWithQualifying ==
  LET qualifying == {i \in DOMAIN all_recommendations :
                       all_recommendations[i].score >= args.score_threshold}
  IN /\ pc \notin {"done", "raised"} => notifier_calls = <<>>
     /\ pc \in {"done", "raised"} =>
          IF args.notify /\ qualifying # {}
          THEN /\ Len(notifier_calls) = 1
               /\ notifier_calls[1].threshold = args.score_threshold
               /\ notifier_calls[1].recommendations =
                    SelectSeq(all_recommendations,
                              LAMBDA r : r.score >= args.score_threshold)
               /\ Len(notifier_calls[1].recommendations) = Cardinality(qualifying)
          ELSE notifier_calls = <<>> /\ notified_count = 0

\* one call carrying several recommendations, one of them exactly at the
\* threshold, while a lower-scored recommendation was left out
C13_Witness ==
  /\ pc = "done"
  /\ Len(notifier_calls) = 1
  /\ Len(notifier_calls[1].recommendations) >= 2
  /\ \E i \in DOMAIN notifier_calls[1].recommendations :
       notifier_calls[1].recommendations[i].score = args.score_threshold
  /\ \E i \in DOMAIN all_recommendations :
       all_recommendations[i].score < args.score_threshold

\* notify set but nothing reaches the threshold: no call, notified_count 0
C13_WitnessNoneQualifies ==
  /\ pc = "done"
  /\ args.notify
  /\ all_recommendations # <<>>
  /\ notifier_calls = <<>>
  /\ result[1].notified_count = 0

\* C14: once the notifier has been called, run_full_pipeline does not raise
\* whatever the delivery did: it returns its summary, with notified_count 0
\* when delivery failed and the number of qualifying recommendations when it
\* succeeded.
C14_DeliveryFailureNotRaised ==
  (pc \in {"done", "raised"} /\ notifier_calls # <<>>) =>
     /\ raised = ""
     /\ result # None
     /\ result[1].notified_count \in {0, Len(notifier_calls[1].recommendations)}
     /\ result[1].repos_embedded = repos_embedded
     /\ result[1].projects_embedded = projects_embedded
     /\ result[1].total_recommendations = total_recommendations

\* the recommendations of the first k match calls, project name attached
RECURSIVE Accumulated(_)
Accumulated(k) ==
  IF k = 0 THEN <<>>
  ELSE Accumulated(k - 1)
       \o [i \in DOMAIN match_log[k].recs |->
             WithProjectName(match_log[k].recs[i],
                             gt_my_projects[match_log[k].project_id].name)]

ActiveProjects == {p \in DOMAIN gt_my_projects : gt_my_projects[p].is_active}

\* C20: the pipeline matches each active project once and no other project;
\* every accumulated recommendation carries the name of the project it was
\* computed for; projects_matched is the number of active projects and
\* total_recommendations the summed lengths of the returned lists.
C20_MatchesEveryActiveProject ==
  pc \in {"notify", "done", "raised"} =>
    /\ Len(match_log) = Cardinality(ActiveProjects)
    /\ {match_log[k].project_id : k \in DOMAIN match_log} = ActiveProjects
    /\ all_recommendations = Accumulated(Len(match_log))
    /\ total_recommendations = Len(all_recommendations)
    /\ pc = "done" =>
         /\ result[1].projects_matched = Cardinality(ActiveProjects)
         /\ result[1].total_recommendations = Len(all_recommendations)

\* both active projects matched, the inactive one not, recommendations of both
\* accumulated
C20_Witness ==
  /\ pc = "done"
  /\ result[1].projects_matched = 2
  /\ result[1].total_recommendations >= 3
  /\ \E i, j \in DOMAIN all_recommendations :
       /\ all_recommendations[i].project_name = "alpha"
       /\ all_recommendations[j].project_name = "beta"
  /\ \A k \in DOMAIN match_log : match_log[k].project_id # "p3"

\* C18: match_project_to_repos with a project id that does not resolve returns
\* an empty list without raising, after calling neither the similarity store
\* nor the metadata lookup.
C18_UnresolvedIsNoop ==
  (project_id # "" /\ project_id \notin DOMAIN gt_my_projects) =>
     /\ raised = ""
     /\ returned = <<>>
     /\ similar_repos = <<>>
     /\ repo_metadata = <<>>

\* C19: a candidate missing from the metadata lookup is left out: no
\* recommendation row is written for it and none is returned.
C19_MissingMetadataExcluded ==
  \A i \in DOMAIN similar_repos :
    LET rid == similar_repos[i].repository_id
    IN rid \notin DOMAIN repo_metadata =>
         /\ RowsOf(gt_recommendations, project_id, rid) = {}
         /\ \A j \in DOMAIN returned : returned[j].repo_id # rid

\* repositories the similarity store may return for a min_stars argument
AboveMinStars(min_stars) ==
  {r \in DOMAIN gt_repositories : gt_repositories[r].stars >= min_stars}

\* C21: when the similarity store returns no candidate above min_stars for a
\* project, match_project_to_repos returns [] without raising and writes no
\* recommendation row, and run_full_pipeline adds 0 to total_recommendations
\* and goes on to the next project.
C21_NoCandidatesIsEmptyResult ==
  [][ pc = "match" =>
        /\ AboveMinStars(args.min_stars) = {} => similar_repos' = <<>>
        /\ similar_repos' = <<>> =>
             /\ returned' = <<>>
             /\ raised' = ""
             /\ gt_recommendations' = gt_recommendations
             /\ total_recommendations' = total_recommendations
             /\ all_recommendations' = all_recommendations
             /\ Len(match_log') = Len(match_log) + 1
             /\ pc' = IF Len(match_log') < Len(projects) THEN "match" ELSE "notify" ]_vars

\* min_stars above every repository's stars: both projects matched, nothing
\* returned, nothing written, the summary reports 0
C21_Witness ==
  /\ pc = "done"
  /\ AboveMinStars(args.min_stars) = {}
  /\ Len(match_log) = 2
  /\ \A k \in DOMAIN match_log : match_log[k].recs = <<>>
  /\ gt_recommendations = {}
  /\ result[1].total_recommendations = 0
  /\ raised = ""

\* the first project got no candidate and the second one was still matched
C21_WitnessGoesOn ==
  /\ Len(match_log) = 2
  /\ match_log[1].recs = <<>>
  /\ match_log[2].recs # <<>>

\* C22: a match_project_to_repos call on a resolvable project makes exactly
\* one get_repo_metadata_by_ids call, whose argument lists every candidate the
\* similarity store returned, however many there are.
C22_OneBatchedMetadataLookup ==
  (project_id \in DOMAIN gt_my_projects /\ raised = "") =>
     /\ Len(metadata_calls) = 1
     /\ Len(metadata_calls[1]) = Len(similar_repos)
     /\ \A i \in DOMAIN similar_repos :
          metadata_calls[1][i] = similar_repos[i].repository_id

\* a call with two candidates and one lookup naming both
C22_Witness ==
  /\ Len(similar_repos) = 2
  /\ Len(metadata_calls) = 1
  /\ ToSet(metadata_calls[1]) = {"r1", "r2"}
  /\ DOMAIN repo_metadata = {"r1", "r2"}

\* what one process alone leaves in an empty recommendation store
SequentialResult(seed) ==
  SaveAll({}, [i \in DOMAIN similar_repos |->
                 RecommendationRow(project_id,
                   ScoreCandidate(gt_my_projects[project_id], similar_repos[i],
                                  repo_metadata, seed))])

\* C23: two concurrent match calls over the same project, candidates and
\* metadata converge under every interleaving: once both have gone through
\* their candidates the store holds one row per pair, with the scores and
\* reasons a single sequential run leaves; once one has, and the other failed
\* part-way, the same holds.
C23_ConcurrentRunsConverge ==
  ( /\ \A p \in Procs : runs[p].failed \/ runs[p].next > Len(similar_repos)
    /\ \E p \in Procs : runs[p].next > Len(similar_repos) ) =>
     /\ \A x, y \in gt_recommendations : SameKey(x, y) => x = y
     /\ \E seed \in HashSeeds : gt_recommendations = SequentialResult(seed)

\* recommendation rows of the projects other than pid
RowsOfOthers(table, pid) == {x \in table : x.project_id # pid}

\* C24: match_project_to_repos(A) writes only rows whose project_id is A: the
\* rows of every other project, all project records, all repository records
\* and all embeddings are as they were, and no project is deleted.
C24_MatchWritesOnlyOwnRows ==
  [][ /\ RowsOfOthers(gt_recommendations', project_id')
           = RowsOfOthers(gt_recommendations, project_id')
      /\ \A x \in gt_recommendations' \ gt_recommendations :
           x.project_id = project_id'
      /\ gt_my_projects' = gt_my_projects
      /\ gt_repositories' = gt_repositories
      /\ repo_embedding' = repo_embedding
      /\ project_embedding' = project_embedding ]_vars

\* a call for p1 has just rewritten p1's row for r1 while p2 holds a row for
\* the same repository
C24_Witness ==
  /\ project_id = "p1"
  /\ overwrote
  /\ RowsOf(gt_recommendations, "p1", "r1") # {}
  /\ RowsOf(gt_recommendations, "p2", "r1") # {}
  /\ gt_my_projects = InitProjects

\* C25: a row is persisted for every candidate the similarity store returned,
\* up to 2 * limit of them, not only for the at most `limit` returned; every
\* returned recommendation has a stored row for the same pair with the same
\* score and reasons.
C25_EveryCandidatePersisted ==
  /\ Len(similar_repos) <= 2 * limit
  /\ Len(returned) <= limit
  /\ \A i \in DOMAIN similar_repos :
       \E x \in RowsOf(gt_recommendations, project_id, similar_repos[i].repository_id) :
         x.embedding_similarity = similar_repos[i].similarity
  /\ \A j \in DOMAIN returned :
       \E x \in RowsOf(gt_recommendations, project_id, returned[j].repo_id) :
         x.score = returned[j].score /\ x.reasons = returned[j].reasons

\* limit 1, two candidates: one returned, both stored
C25_Witness ==
  /\ limit = 1
  /\ Len(similar_repos) = 2
  /\ Len(returned) = 1
  /\ \A i \in DOMAIN similar_repos :
       RowsOf(gt_recommendations, project_id, similar_repos[i].repository_id) # {}

\* every pair the last match call scored has its row in status "new"
ScoredRowsAreNew ==
  \A i \in DOMAIN scored :
    \A x \in RowsOf(gt_recommendations, project_id, scored[i].repo_id) :
      x.status = "new"

\* C26: every row matching writes has status "new": after a match run that
\* scores a pair whose recommendation had been dismissed, that row's status is
\* "new" again; only a dismissal makes a row "dismissed".
C26_RematchResetsStatus ==
  /\ [](\A x \in gt_recommendations :
          x.status = "dismissed" => << x.project_id, x.repository_id >> \in dismiss_calls)
  /\ [][ (\A x \in gt_recommendations' \ gt_recommendations : x.status # "dismissed")
           => ScoredRowsAreNew' ]_vars

\* a pair that was dismissed, then scored again by the last call, is "new"
C26_Witness ==
  \E i \in DOMAIN scored :
    /\ << project_id, scored[i].repo_id >> \in dismiss_calls
    /\ \E x \in RowsOf(gt_recommendations, project_id, scored[i].repo_id) :
         x.status = "new"

\* C27: the phases of one run_full_pipeline are strictly ordered: the project
\* backfill starts only after the repository backfill, a project is matched
\* only after both backfills, the notification decision is taken only once
\* every project of the list has been matched, and the summary exists only
\* after that decision, with any notifier call already made.
C27_PhasesStrictlyOrdered ==
  /\ [](/\ match_log # <<>> => embed_call.kind = "projects"
        /\ Len(match_log) <= Len(projects)
        /\ notifier_calls # <<>> => Len(match_log) = Len(projects)
        /\ result # None =>
             /\ pc = "done"
             /\ Len(match_log) = Len(projects)
             /\ result[1].notified_count > 0 => notifier_calls # <<>>)
  /\ [][ /\ (embed_call'.kind = "repos" /\ embed_call.kind # "repos") =>
              (embed_call = NoEmbedCall /\ match_log = <<>>)
         /\ (embed_call'.kind = "projects" /\ embed_call.kind # "projects") =>
              (embed_call.kind = "repos" /\ match_log = <<>>)
         /\ match_log' # match_log =>
              /\ embed_call.kind = "projects"
              /\ embed_call' = embed_call
              /\ notifier_calls = <<>> /\ notifier_calls' = <<>>
              /\ result = None /\ result' = None
         /\ pc = "notify" =>
              /\ Len(match_log) = Len(projects)
              /\ match_log' = match_log
              /\ embed_call' = embed_call
         /\ result' # result => pc = "notify" ]_vars

\* a run that went through both backfills, matched two projects, called the
\* notifier and returned its summary
C27_Witness ==
  /\ pc = "done"
  /\ embed_call.kind = "projects"
  /\ Len(match_log) = 2
  /\ notifier_calls # <<>>
  /\ result # None
  /\ result[1].notified_count > 0

\* positions in slack_messages of the messages of one kind
MessagesOfKind(kind) == {i \in DOMAIN slack_messages : slack_messages[i].kind = kind}

\* C28: in one sync the trending summary is sent exactly when notify is set
\* and the pipeline reported notified_count = 0; at most one Slack message is
\* reported delivered (never the recommendations message and the summary
\* both); with notify unset no Slack message is sent at all.
C28_OneSlackMessagePerSync ==
  /\ Cardinality({i \in DOMAIN slack_messages : slack_messages[i].delivered}) <= 1
  /\ Cardinality(MessagesOfKind("trending_summary")) <= 1
  /\ ~args.notify => slack_messages = <<>>
  /\ result = None => MessagesOfKind("trending_summary") = {}
  /\ (pc \in {"synced", "raised"} /\ result # None) =>
       (MessagesOfKind("trending_summary") # {}
          <=> (args.notify /\ result[1].notified_count = 0))

\* the recommendations message was attempted and not delivered, so the pipeline
\* reported 0 and the summary went out and was delivered
C28_Witness ==
  /\ pc = "synced"
  /\ Len(slack_messages) = 2
  /\ slack_messages[1] = [kind |-> "recommendations", delivered |-> FALSE]
  /\ slack_messages[2] = [kind |-> "trending_summary", delivered |-> TRUE]
  /\ result[1].notified_count = 0

\* the recommendations message was delivered, so no summary was sent
C28_WitnessRecommendationsOnly ==
  /\ pc = "synced"
  /\ args.notify
  /\ result[1].notified_count > 0
  /\ Len(slack_messages) = 1
  /\ slack_messages[1].delivered

\* C29: the schedule loop survives failures: after a failed sync, and after a
\* failure notification that itself raised, the loop goes back to computing
\* the next run; the run time _next_run_at returns is strictly later than the
\* time it was computed at and at most one day ahead, at the scheduled slot;
\* the loop stops only on a keyboard interrupt.
C29_ScheduleSurvivesFailures ==
  /\ [](/\ sched.pc = "sleeping" =>
             /\ sched.run_at > sched.now
             /\ sched.run_at - sched.now <= Day
             /\ sched.run_at % Day = sched.slot * TicksPerSlot
        /\ sched.pc = "stopped" => sched.stopped_by = "KeyboardInterrupt")
  /\ [][ /\ sched.pc = "running" => sched'.pc \in {"compute", "failed", "stopped"}
         /\ sched.pc = "failed" => sched'.pc \in {"compute", "stopped"}
         /\ sched.pc = "compute" => sched'.pc \in {"sleeping", "stopped"}
         /\ (sched.pc \in {"running", "failed"} /\ sched'.pc = "stopped") =>
              sched'.stopped_by = "KeyboardInterrupt" ]_vars

\* a second run is being waited for although the first sync failed and the
\* failure notification raised as well; it was computed at the very instant of
\* the scheduled time and lies a whole day ahead
C29_Witness ==
  /\ sched.pc = "sleeping"
  /\ sched.n_runs = 1
  /\ sched.last = "Exception"
  /\ sched.notice = "Exception"
  /\ sched.now % Day = sched.slot * TicksPerSlot
  /\ sched.run_at = sched.now + Day

\* a third run is being waited for after two failed syncs
C29_WitnessGoesOn ==
  /\ sched.pc = "sleeping"
  /\ sched.n_runs = 2
  /\ sched.last = "Exception"

\* the names of the first n inputs of the registration run
InputNamesUpTo(n) == {reg.inputs[i] : i \in 1..n}

StoredNames(table) == {table[p].name : p \in DOMAIN table}

====
